---- MODULE Spec2Model ----
(***************************************************************************)
(* Model of main.py: the response parser parse_generated_comments and the  *)
(* POST /generate_comment handler around it.                               *)
(*                                                                         *)
(* Text is a sequence of characters; each character is a one-token string. *)
(* NL is the line break, SP the space, QUOTE the double quote, DOT the     *)
(* period.  NL and SP are the whitespace characters of the model (both are *)
(* matched by the regex class \s and removed by str.strip()).              *)
(***************************************************************************)
EXTENDS Integers, Sequences, FiniteSets, TLC

NL == "NL"
SP == "SP"
QUOTE == "QUOTE"
DOT == "."

\* ---- bounds ----
MaxLen == 5
MaxCLen == 2
MaxN == 11
MaxReqs == 2

DigitChars == <<"0", "1", "2", "3", "4", "5", "6", "7", "8", "9">>

Alphabet == {NL, SP, "1", "2", DOT, QUOTE, "a"}

IsSpace(ch) == ch \in {NL, SP}

IsDigit(ch) == \E d \in 1..10 : DigitChars[d] = ch

\* ---- str helpers ----
RECURSIVE LStrip(_)
LStrip(s) ==
  IF s = <<>> THEN s
  ELSE IF IsSpace(Head(s)) THEN LStrip(Tail(s)) ELSE s

RECURSIVE RStrip(_)
RStrip(s) ==
  IF s = <<>> THEN s
  ELSE IF IsSpace(s[Len(s)]) THEN RStrip(SubSeq(s, 1, Len(s) - 1)) ELSE s

\* str.strip()
Strip(s) == RStrip(LStrip(s))

\* str.startswith(p)
StartsWith(s, p) == Len(s) >= Len(p) /\ SubSeq(s, 1, Len(p)) = p

\* str.endswith(p)
EndsWith(s, p) == Len(s) >= Len(p) /\ SubSeq(s, Len(s) - Len(p) + 1, Len(s)) = p

\* ---- the regex \n\d+\.\s* ----
\* index of the first character at or after i that is not a digit
RECURSIVE SkipDigits(_, _)
SkipDigits(s, i) ==
  IF i <= Len(s) /\ IsDigit(s[i]) THEN SkipDigits(s, i + 1) ELSE i

\* a single digit instead of a run
DigitsManyM(s, i) ==
  IF i <= Len(s) /\ IsDigit(s[i]) THEN i + 1 ELSE 0

\* \d+ : greedy run of one or more digits starting at i; 0 when there is none
DigitsMany(s, i) ==
  IF i <= Len(s) /\ IsDigit(s[i]) THEN SkipDigits(s, i) ELSE 0

\* \s* : index of the first character at or after i that is not whitespace
RECURSIVE SkipSpaces(_, _)
SkipSpaces(s, i) ==
  IF i <= Len(s) /\ IsSpace(s[i]) THEN SkipSpaces(s, i + 1) ELSE i

\* what follows the period of a label: \s*
LabelTail(s, j) == SkipSpaces(s, j)

\* A match of the pattern starting at index i: the index just past the match,
\* or 0 when the pattern does not match at i.
MatchEnd(s, i) ==
  IF i <= Len(s) /\ s[i] = NL
  THEN LET j == DigitsMany(s, i + 1)
       IN IF j # 0 /\ j <= Len(s) /\ s[j] = DOT THEN LabelTail(s, j + 1) ELSE 0
  ELSE 0

\* re.split(pattern, s): scan from i, the current piece began at start
RECURSIVE ReSplitFrom(_, _, _)
ReSplitFrom(s, i, start) ==
  IF i > Len(s) THEN << SubSeq(s, start, Len(s)) >>
  ELSE LET e == MatchEnd(s, i)
       IN IF e = 0 THEN ReSplitFrom(s, i + 1, start)
          ELSE << SubSeq(s, start, i - 1) >> \o ReSplitFrom(s, e, e)

ReSplit(s) == ReSplitFrom(s, 1, 1)

\* str.split('\n')
RECURSIVE SplitLinesFrom(_, _, _)
SplitLinesFrom(s, i, start) ==
  IF i > Len(s) THEN << SubSeq(s, start, Len(s)) >>
  ELSE IF s[i] = NL
       THEN << SubSeq(s, start, i - 1) >> \o SplitLinesFrom(s, i + 1, i + 1)
       ELSE SplitLinesFrom(s, i + 1, start)

SplitLines(s) == SplitLinesFrom(s, 1, 1)

\* ---- parse_generated_comments ----
Apology == << "Sorry, I couldn't generate a comment for that." >>

FirstLabel == << "1", DOT, SP >>

\* c = comment.strip(); if c.startswith('1. '): c = c[3:]
Unlabel(comment) ==
  LET c == Strip(comment)
  IN IF StartsWith(c, FirstLabel) THEN SubSeq(c, 4, Len(c)) ELSE c

\* the quote test with the length bound off by one
StripQuotesM(c) ==
  IF Len(c) >= 2 /\ StartsWith(c, << QUOTE >>) /\ EndsWith(c, << QUOTE >>)
  THEN SubSeq(c, 2, Len(c) - 1)
  ELSE c

\* if len(c) > 2 and c.startswith('"') and c.endswith('"'): c = c[1:-1]
StripQuotes(c) ==
  IF Len(c) > 2 /\ StartsWith(c, << QUOTE >>) /\ EndsWith(c, << QUOTE >>)
  THEN SubSeq(c, 2, Len(c) - 1)
  ELSE c

\* one pass of the loop body up to the emptiness test
CleanFragment(comment) == StripQuotes(Unlabel(comment))

NonEmpty(c) == c # <<>>

\* the loop: cleaned_comments after the primary split
CleanedComments(text_response) ==
  LET comments == ReSplit(text_response)
  IN SelectSeq([i \in 1..Len(comments) |-> CleanFragment(comments[i])], NonEmpty)

\* [c.strip() for c in text_response.split('\n') if c.strip()]
LineFallback(text_response) ==
  LET lines == SplitLines(text_response)
  IN SelectSeq([i \in 1..Len(lines) |-> Strip(lines[i])], NonEmpty)

\* the fallback test with its "not" lost
UseFallbackM(cleaned, text_response) == cleaned # <<>> /\ text_response # <<>>

\* if not cleaned_comments and text_response
UseFallback(cleaned, text_response) == cleaned = <<>> /\ text_response # <<>>

\* the final "or" dropped
OrApologyM(cleaned) ==
  [comments |-> cleaned, branch |-> "apology"]

\* cleaned_comments or [apology]
OrApology(cleaned) ==
  [comments |-> << Apology >>, branch |-> "apology"]

\* The whole routine.  branch records which of the three return paths
\* produced the list: the primary split, the line fallback, the apology.
parse_generated_comments(text_response) ==
  LET primary == CleanedComments(text_response)
      fell == UseFallback(primary, text_response)
      cleaned == IF fell THEN LineFallback(text_response) ELSE primary
  IN IF cleaned # <<>>
     THEN [comments |-> cleaned, branch |-> IF fell THEN "fallback" ELSE "primary"]
     ELSE OrApology(cleaned)

\* ---- inputs of the parser ----
Texts == UNION { [1..n -> Alphabet] : n \in 0..MaxLen }

\* candidate comments for short numbered lists: every text up to MaxCLen,
\* and one that itself begins with the first label
RichPool ==
  (UNION { [1..n -> Alphabet] : n \in 1..MaxCLen }) \cup { << "1", DOT, SP, "a" >> }

\* candidate comments for long numbered lists
SmallPool == { << "a" >>, << "2", DOT, SP, QUOTE, "a" >> }

\* single comments and pairs from the rich pool, lists up to MaxN from the
\* small one
CommentLists ==
  [1..1 -> RichPool] \cup [1..2 -> RichPool]
    \cup (UNION { [1..n -> SmallPool] : n \in 1..MaxN })

\* decimal digits of a label number
RECURSIVE Digits(_)
Digits(i) ==
  IF i < 10 THEN << DigitChars[i + 1] >>
  ELSE Digits(i \div 10) \o << DigitChars[(i % 10) + 1] >>

\* the reply format the prompt asks for: "1. c1\n2. c2\n...\nn. cn"
RECURSIVE Numbered(_, _)
Numbered(list, i) ==
  IF i > Len(list) THEN <<>>
  ELSE (IF i = 1 THEN <<>> ELSE << NL >>)
         \o Digits(i) \o << DOT, SP >> \o list[i] \o Numbered(list, i + 1)

\* ---- the request handler ----
None == "None"
Unbound == "unbound"
GroqClient == "Groq"
ModelName == "llama-3.1-8b-instant"

NotInitDetail == << "Groq client is not initialized. Check GROQ_API_KEY." >>
ErrorPrefix == "Error generating comment: "

Reqs == 1..MaxReqs
Keywords == {"coffee", "tea"}
Credentials == {"unset", "empty", "set"}

\* replies of the completion service: message contents
Replies ==
  { << "1", DOT, SP, "a", NL, "2", DOT, SP, "a" >>,
    << "a" >>,
    << QUOTE, "a", QUOTE >>,
    <<>> }

\* errors raised by client.chat.completions.create
UpstreamErrors == {"APIConnectionError", "AuthenticationError"}

\* errors raised while reading the reply: no choice, or a None content
ReplyErrors == {"IndexError", "TypeError"}

NoResponse == [status |-> 0, keyword |-> "", comments |-> <<>>, detail |-> <<>>]

\* the guard inverted into a no-op
ClientMissingM(c) == FALSE

\* if not client
ClientMissing(c) == c = None

\* HTTPException(status_code=500, detail="Groq client is not initialized. ...")
NotInitResponse ==
  [status |-> 500, keyword |-> "", comments |-> <<>>, detail |-> NotInitDetail]

\* the detail without its prefix
ErrorResponseM(e) ==
  [status |-> 500, keyword |-> "", comments |-> <<>>, detail |-> << e >>]

\* HTTPException(status_code=500, detail=f"Error generating comment: {e}")
ErrorResponse(e) ==
  [status |-> 500, keyword |-> "", comments |-> <<>>, detail |-> << ErrorPrefix, e >>]

\* the keyword replaced by a fixed one
CommentResponseM(keyword, comments) ==
  [status |-> 200, keyword |-> "coffee", comments |-> comments, detail |-> <<>>]

\* CommentResponse(keyword=keyword, generated_comments=comments)
CommentResponse(keyword, comments) ==
  [status |-> 200, keyword |-> keyword, comments |-> comments, detail |-> <<>>]

IdleReq ==
  [pc |-> "idle", body |-> "", keyword |-> "", calls |-> 0, outcome |-> "",
   raw |-> <<>>, response |-> NoResponse]

VARIABLES text, cs, result, phase, started, credential, client, MODEL, req

vars == << text, cs, result, phase, started, credential, client, MODEL, req >>

parserVars == << text, cs, result, phase >>
serverVars == << started, credential, client, MODEL, req >>

NoResult == [comments |-> <<>>, branch |-> "none"]

\* ---- parser specification: the routine applied to one input ----
ServerIdle ==
  /\ started = FALSE
  /\ credential = Unbound
  /\ client = Unbound
  /\ MODEL = Unbound
  /\ req = [r \in Reqs |-> IdleReq]

InitParser ==
  /\ \/ text \in Texts /\ cs = <<>>
     \/ cs \in CommentLists /\ text = Numbered(cs, 1)
  /\ result = NoResult
  /\ phase = "input"
  /\ ServerIdle

Parse ==
  /\ phase = "input"
  /\ result' = parse_generated_comments(text)
  /\ phase' = "parsed"
  /\ UNCHANGED << text, cs, serverVars >>

NextParser == Parse

SpecParser == InitParser /\ [][NextParser]_vars

\* ---- server specification ----
Init ==
  /\ text = <<>>
  /\ cs = <<>>
  /\ result = NoResult
  /\ phase = "server"
  /\ ServerIdle

\* module import: read GROQ_API_KEY, construct the client; a constructor
\* failure is caught and leaves client = None and MODEL unassigned
Startup ==
  /\ ~started
  /\ \E key \in Credentials, ctorRaises \in BOOLEAN :
       /\ credential' = key
       /\ IF ctorRaises
          THEN client' = None /\ MODEL' = MODEL
          ELSE client' = GroqClient /\ MODEL' = ModelName
  /\ started' = TRUE
  /\ UNCHANGED << parserVars, req >>

\* generate_comment up to the upstream call
Receive(r, kw) ==
  /\ started
  /\ req[r].pc = "idle"
  /\ IF ClientMissing(client)
     THEN req' = [req EXCEPT ![r].pc = "done", ![r].body = kw,
                             ![r].outcome = "notinit",
                             ![r].response = NotInitResponse]
     ELSE req' = [req EXCEPT ![r].pc = "calling", ![r].body = kw,
                             ![r].keyword = kw,
                             ![r].calls = req[r].calls + 1]
  /\ UNCHANGED << parserVars, started, credential, client, MODEL >>

\* the call returns a completion whose content is text
UpstreamReply(r, content) ==
  /\ req[r].pc = "calling"
  /\ req' = [req EXCEPT ![r].pc = "done", ![r].raw = content,
                        ![r].outcome = "ok",
                        ![r].response =
                          CommentResponse(req[r].keyword,
                                          parse_generated_comments(content).comments)]
  /\ UNCHANGED << parserVars, started, credential, client, MODEL >>

\* client.chat.completions.create raises; the except clause answers
UpstreamRaises(r, e) ==
  /\ req[r].pc = "calling"
  /\ req' = [req EXCEPT ![r].pc = "done", ![r].outcome = e,
                        ![r].response = ErrorResponse(e)]
  /\ UNCHANGED << parserVars, started, credential, client, MODEL >>

\* the call returns, but choices[0].message.content or the parse of a None
\* content raises inside the same try block
ReplyUnreadable(r, e) ==
  /\ req[r].pc = "calling"
  /\ req' = [req EXCEPT ![r].pc = "done", ![r].outcome = e,
                        ![r].response = ErrorResponse(e)]
  /\ UNCHANGED << parserVars, started, credential, client, MODEL >>

Next ==
  \/ Startup
  \/ \E r \in Reqs, kw \in Keywords : Receive(r, kw)
  \/ \E r \in Reqs, content \in Replies : UpstreamReply(r, content)
  \/ \E r \in Reqs, e \in UpstreamErrors : UpstreamRaises(r, e)
  \/ \E r \in Reqs, e \in ReplyErrors : ReplyUnreadable(r, e)

Spec == Init /\ [][Next]_vars

\* ---- properties of the parser (SpecParser) ----
Parsed == phase = "parsed"

AllSpace(s) == \A i \in 1..Len(s) : IsSpace(s[i])

\* C1: for every text, the empty and the whitespace-only ones included, the
\* routine returns at least one comment and every comment is non-empty.
C1_NonEmptyResult ==
  Parsed =>
    /\ Len(result.comments) >= 1
    /\ \A i \in 1..Len(result.comments) : result.comments[i] # <<>>

C1_Witness ==
  /\ Parsed
  /\ text # <<>>
  /\ AllSpace(text)
  /\ result.comments = << Apology >>

\* an occurrence, at index i, of: line break, one or more digits, a period,
\* a space
SpacedLabelAt(s, i) ==
  /\ s[i] = NL
  /\ LET j == SkipDigits(s, i + 1)
     IN /\ j > i + 1
        /\ j + 1 <= Len(s)
        /\ s[j] = DOT
        /\ s[j + 1] = SP

SpacedLabels(s) == Cardinality({ i \in 1..Len(s) : SpacedLabelAt(s, i) })

\* C2: a text with k occurrences of "line break, digits, period, space"
\* yields at most k+1 comments.
C2_AtMostKPlusOne ==
  Parsed => Len(result.comments) <= SpacedLabels(text) + 1

\* C3: no returned comment begins or ends with a whitespace character.
C3_Trimmed ==
  Parsed =>
    \A i \in 1..Len(result.comments) :
      /\ ~IsSpace(Head(result.comments[i]))
      /\ ~IsSpace(result.comments[i][Len(result.comments[i])])

HasDigit(s) == \E i \in 1..Len(s) : IsDigit(s[i])

\* C4: a text without any numeric label is answered by the line-split
\* fallback: the primary split gives nothing usable and the result is the
\* text's trimmed non-empty lines, in order.
C4_UnlabelledViaFallback ==
  (Parsed /\ ~HasDigit(text) /\ ~AllSpace(text)) =>
    /\ result.branch = "fallback"
    /\ result.comments = LineFallback(text)

HasNL(s) == \E i \in 1..Len(s) : s[i] = NL

Wrapped(c) == Len(c) >= 2 /\ c[1] = QUOTE /\ c[Len(c)] = QUOTE

\* the comments the round trip is claimed for
PlainComment(c) ==
  /\ c # <<>>
  /\ ~HasNL(c)
  /\ ~IsSpace(c[1])
  /\ ~IsSpace(c[Len(c)])
  /\ ~Wrapped(c)
  /\ ~StartsWith(c, FirstLabel)

\* C5: for plain comments c1..cn (n >= 1, two-digit labels included), the
\* text "1. c1\n2. c2\n...\nn. cn" parses to exactly c1..cn, in order.
C5_NumberedRoundTrip ==
  (Parsed /\ cs # <<>> /\ \A i \in 1..Len(cs) : PlainComment(cs[i])) =>
    result.comments = cs

C5_Witness ==
  /\ Parsed
  /\ Len(cs) >= 10
  /\ \A i \in 1..Len(cs) : PlainComment(cs[i])
  /\ \E i \in 1..Len(cs) : cs[i] # << "a" >>
  /\ result.comments = cs

TwoQuotes == << QUOTE, QUOTE >>

\* C6: quote stripping takes exactly one quote off each end of a fragment
\* longer than 2 that begins and ends with a quote, and leaves every other
\* fragment as it is; a fragment of exactly two quotes is returned as such.
C6_QuoteStripping ==
  Parsed =>
    LET frags == ReSplit(text)
        cleaned == [i \in 1..Len(frags) |-> CleanFragment(frags[i])]
    IN /\ \A i \in 1..Len(frags) :
            LET u == Unlabel(frags[i])
            IN IF Len(u) > 2 /\ Wrapped(u)
               THEN << QUOTE >> \o cleaned[i] \o << QUOTE >> = u
               ELSE cleaned[i] = u
       /\ result.branch = "primary" => result.comments = SelectSeq(cleaned, NonEmpty)
       /\ text = FirstLabel \o TwoQuotes => result.comments = << TwoQuotes >>

C6_Witness ==
  /\ Parsed
  /\ text = FirstLabel \o TwoQuotes
  /\ result.comments = << TwoQuotes >>

IsSubstring(c, s) ==
  \E a \in 1..Len(s) : a + Len(c) - 1 <= Len(s) /\ SubSeq(s, a, a + Len(c) - 1) = c

\* C10: the apology is returned exactly for the texts without any
\* non-whitespace character; every other text yields comments taken from the
\* text, by the primary split or by the line fallback.
C10_ApologyIffBlank ==
  Parsed =>
    /\ result.branch = "apology" <=> AllSpace(text)
    /\ result.branch = "apology" => result.comments = << Apology >>
    /\ result.branch # "apology" =>
         /\ result.branch \in {"primary", "fallback"}
         /\ result.comments # <<>>
         /\ \A i \in 1..Len(result.comments) : IsSubstring(result.comments[i], text)

C10_Witness ==
  /\ Parsed
  /\ result.branch = "fallback"
  /\ ~AllSpace(text)
  /\ \E i \in 1..Len(text) : IsSpace(text[i])

\* ---- properties of the handler (Spec) ----
\* C7: with the client handle left None by startup the server is up, and a
\* request is answered 500 "Groq client is not initialized. ..." without any
\* call to the completion service.
C7_NotInitialized ==
  client = None =>
    /\ started
    /\ \A r \in Reqs :
         /\ req[r].calls = 0
         /\ req[r].pc \in {"idle", "done"}
         /\ req[r].pc = "done" =>
              /\ req[r].response.status = 500
              /\ req[r].response.detail = NotInitDetail

C7_Witness ==
  /\ client = None
  /\ credential = "set"
  /\ \A r \in Reqs : req[r].pc = "done" /\ req[r].response.status = 500

\* C8: with an initialized client a request calls the completion service at
\* most once; a failure of the call or of the handling of its reply ends the
\* request with 500 "Error generating comment: <error>", after that one
\* call, and every finished request carries an HTTP answer.
C8_SingleCallErrors ==
  client = GroqClient =>
    \A r \in Reqs :
      /\ req[r].calls <= 1
      /\ req[r].pc = "done" =>
           /\ req[r].calls = 1
           /\ req[r].response.status \in {200, 500}
           /\ req[r].outcome # "ok" =>
                /\ req[r].outcome \in UpstreamErrors \cup ReplyErrors
                /\ req[r].response.status = 500
                /\ req[r].response.detail = << ErrorPrefix, req[r].outcome >>

C8_Witness ==
  /\ client = GroqClient
  /\ req[1].pc = "done" /\ req[1].outcome \in UpstreamErrors
  /\ req[2].pc = "done" /\ req[2].outcome \in ReplyErrors
  /\ \A r \in Reqs : req[r].response.status = 500 /\ req[r].calls = 1

OwnAnswer ==
  \A r \in Reqs :
    (req[r].pc = "done" /\ req[r].response.status = 200) =>
      /\ req[r].response.keyword = req[r].body
      /\ req[r].response.comments = parse_generated_comments(req[r].raw).comments

\* C9: under every interleaving a successful response carries its own
\* request's keyword and the parse of its own reply; a step of one request
\* changes no other request; the client handle never changes after startup.
C9_Independent ==
  /\ []OwnAnswer
  /\ [][ /\ \A r1, r2 \in Reqs :
              (req'[r1] # req[r1] /\ req'[r2] # req[r2]) => r1 = r2
         /\ started => (client' = client /\ MODEL' = MODEL) ]_vars

C9_Witness ==
  /\ req[1].pc = "done" /\ req[2].pc = "done"
  /\ req[1].response.status = 200 /\ req[2].response.status = 200
  /\ req[1].body # req[2].body
  /\ req[1].raw # req[2].raw
  /\ req[1].response.comments # req[2].response.comments

====
